---- MODULE Spec2Model ----
(***************************************************************************)
(* Model of openedx/core/lib/partitions/partitions_service.py:             *)
(* the partition lookup (get_course_user_partitions and its helpers) and   *)
(* the PartitionService (get_user_group_id_for_partition, get_group).      *)
(*                                                                         *)
(* Python values are modelled as follows.                                  *)
(*   - None (as a list element or a looked-up partition) is the record     *)
(*     NoneObj, which has no id field: reading .id of it is the            *)
(*     AttributeError of the interpreter and is modelled explicitly.       *)
(*   - a group id is a string; the null group id is the string "None".     *)
(*   - a cache is a dict: a function whose domain is the set of its keys.  *)
(*   - a call result is a record with the exception raised (exc, "none"    *)
(*     for a normal return) and the value returned.                        *)
(***************************************************************************)
EXTENDS Integers, Sequences, FiniteSets, TLC

(* ----------------------------- bounds ---------------------------------- *)

\* number of operations performed in one behaviour
MaxCalls == 4

\* length of the partition lists handed to _get_partition_from_id on its own
MaxLen == 3

(* ------------------------- program constants --------------------------- *)

ENROLLMENT_TRACK_PARTITION_ID == 50

Users == {1}

CourseIds == {"c1"}

\* cache objects handed to the service constructor; NoCache is cache=None
CacheObjects == {"k1", "k2"}

NoCache == "nocache"

CacheRefs == CacheObjects \cup {NoCache}

GroupIds == {"g0", "g1"}

NoGroupId == "None"

NoneObj == [type |-> "None"]

UserPartition(id, name, scheme, groups, parameters) ==
    [type |-> "UserPartition", id |-> id, name |-> name, scheme |-> scheme,
     groups |-> groups, parameters |-> parameters]

StaticPartition(id, name, groups) == UserPartition(id, name, "random", groups, "")

\* the statically configured partition lists a course may start with
\* (partition ids are unique within a course)
StaticChoices ==
    { << >>,
      << StaticPartition(1, "A", GroupIds) >>,
      << StaticPartition(1, "A", GroupIds),
         StaticPartition(ENROLLMENT_TRACK_PARTITION_ID, "Fifty", GroupIds) >>,
      << StaticPartition(ENROLLMENT_TRACK_PARTITION_ID, "Fifty", GroupIds),
         StaticPartition(1, "A", GroupIds) >>,
      << StaticPartition(1, "B", {"g1"}) >>,
      << StaticPartition(1, "A", GroupIds), StaticPartition(2, "C", {"g0"}) >> }

\* the partition ids callers ask for (each of them is unknown in some course)
CallPartitionIds == {1, 2, ENROLLMENT_TRACK_PARTITION_ID}

VARIABLES
    registered,       \* is the "enrollment_track" scheme in the scheme registry
    user_partitions,  \* course id -> course.user_partitions (static list)
    course_tags,      \* persisted assignments: <<user, course, partition id>> -> group id
    caches,           \* cache object -> dict
    last,             \* the last operation performed and what it returned
    prev,             \* <<user, course, partition id>> -> the group id returned by the
                      \* latest call since the partition's groups last changed
    calls             \* number of operations performed

vars == << registered, user_partitions, course_tags, caches, last, prev, calls >>

TagKeys == Users \X CourseIds \X CallPartitionIds

(* ------------------------- partition lookup ---------------------------- *)

RECURSIVE ScanFrom(_, _, _)
ScanFrom(partitions, user_partition_id, i) ==
    IF i > Len(partitions)
    THEN [exc |-> "none", value |-> NoneObj]
    ELSE IF partitions[i] = NoneObj
         THEN [exc |-> "AttributeError", value |-> NoneObj]
         ELSE IF partitions[i].id = user_partition_id
              THEN [exc |-> "none", value |-> partitions[i]]
              ELSE ScanFrom(partitions, user_partition_id, i + 1)

\* as _get_partition_from_id, with the scan going on after a match, so that
\* the last matching partition is returned
_get_partition_from_id_last(partitions, user_partition_id) ==
    LET matches == { i \in DOMAIN partitions :
                       partitions[i] # NoneObj /\ partitions[i].id = user_partition_id }
    IN  IF \E i \in DOMAIN partitions : partitions[i] = NoneObj
        THEN [exc |-> "AttributeError", value |-> NoneObj]
        ELSE IF matches = {}
             THEN [exc |-> "none", value |-> NoneObj]
             ELSE [exc |-> "none",
                   value |-> partitions[CHOOSE i \in matches : \A j \in matches : j <= i]]

\* for partition in partitions: if partition.id == user_partition_id: return partition
_get_partition_from_id(partitions, user_partition_id) ==
    ScanFrom(partitions, user_partition_id, 1)

used_ids(course) == { user_partitions[course][i].id : i \in DOMAIN user_partitions[course] }

\* enrollment_track_scheme.create_user_partition(id=50, name=..., parameters={"course_id": ...})
create_user_partition(course) ==
    UserPartition(ENROLLMENT_TRACK_PARTITION_ID, "Enrollment Track Partition",
                  "enrollment_track", GroupIds, course)

\* as _create_enrollment_track_partition, without the check of the used ids
_create_enrollment_track_partition_unchecked(course) ==
    IF ~registered THEN NoneObj ELSE create_user_partition(course)

_create_enrollment_track_partition(course) ==
    IF ~registered
    THEN NoneObj
    ELSE IF ENROLLMENT_TRACK_PARTITION_ID \in used_ids(course)
         THEN NoneObj
         ELSE create_user_partition(course)

_get_dynamic_partitions(course) == << _create_enrollment_track_partition(course) >>

\* as user_partitions_after_call, with the dynamic partition added to
\* course.user_partitions in place (course.user_partitions.append(...))
user_partitions_appended_in_place(course) ==
    IF _create_enrollment_track_partition(course) # NoneObj
    THEN user_partitions[course] \o << _create_enrollment_track_partition(course) >>
    ELSE user_partitions[course]

\* course.user_partitions after get_course_user_partitions(course): the
\* operator + builds a new list and leaves its operands as they are
user_partitions_after_call(course) == user_partitions[course]

\* as get_course_user_partitions, with the dynamic partitions put first
get_course_user_partitions_prepended(course) ==
    _get_dynamic_partitions(course) \o user_partitions[course]

get_course_user_partitions(course) ==
    user_partitions[course] \o _get_dynamic_partitions(course)

(* ------------------------- partition service --------------------------- *)

\* self.get_course() of a service constructed with course_id
get_course(course_id) == course_id

course_partitions(course_id) == get_course_user_partitions(get_course(course_id))

\* as _get_user_partition, searching course.user_partitions (the static list) only
_get_user_partition_static(course_id, user_partition_id) ==
    _get_partition_from_id(user_partitions[get_course(course_id)], user_partition_id)

_get_user_partition(course_id, user_partition_id) ==
    _get_partition_from_id(course_partitions(course_id), user_partition_id)

\* as cache_key, with the user id left out of the key
cache_key_without_user(user, course_id, user_partition_id) ==
    "PartitionService.ugidfp." \o course_id \o "." \o ToString(user_partition_id)

\* "PartitionService.ugidfp.{}.{}.{}".format(user.id, course_id, user_partition_id)
cache_key(user, course_id, user_partition_id) ==
    "PartitionService.ugidfp." \o ToString(user) \o "." \o course_id
        \o "." \o ToString(user_partition_id)

\* as CacheHit, with the cache never consulted
CacheHit_never(cache, key) == FALSE

\* as CacheHit, with the test "self._cache.get(cache_key)" (false for a cached None)
CacheHit_truthy_value(cache, key) ==
    /\ cache # NoCache
    /\ key \in DOMAIN caches[cache]
    /\ caches[cache][key] # NoGroupId

\* if self._cache and (cache_key in self._cache)
CacheHit(cache, key) ==
    /\ cache # NoCache
    /\ DOMAIN caches[cache] # {}
    /\ key \in DOMAIN caches[cache]

\* as CacheStore, with the test "if self._cache:" (false for an empty dict)
CacheStore_truthy(cache, key, group_id) ==
    IF cache # NoCache /\ DOMAIN caches[cache] # {}
    THEN [caches EXCEPT ![cache] = (key :> group_id) @@ @]
    ELSE caches

\* if self._cache is not None: self._cache[cache_key] = group_id
CacheStore(cache, key, group_id) ==
    IF cache # NoCache
    THEN [caches EXCEPT ![cache] = (key :> group_id) @@ @]
    ELSE caches

\* The scheme: fetch the user's persisted group; if there is none (or it is
\* not a group of the partition any more) and assign is set, choose one of
\* the partition's groups and persist the choice.  The result is the set of
\* possible outcomes (the group chosen is the scheme's business).
get_group_for_user(course_id, user, user_partition, assign) ==
    LET tag    == << user, course_id, user_partition.id >>
        stored == course_tags[tag]
    IN  IF stored \in user_partition.groups
        THEN { [group |-> stored, tags |-> course_tags] }
        ELSE IF assign /\ user_partition.groups # {}
             THEN { [group |-> g, tags |-> [course_tags EXCEPT ![tag] = g]] :
                      g \in user_partition.groups }
             ELSE { [group |-> NoGroupId, tags |-> course_tags] }

\* as get_group, with the assign flag dropped (the scheme's default is used)
get_group_assigning(user, course_id, user_partition, assign) ==
    get_group_for_user(course_id, user, user_partition, TRUE)

\* return user_partition.scheme.get_group_for_user(..., assign=assign, ...)
get_group(user, course_id, user_partition, assign) ==
    get_group_for_user(course_id, user, user_partition, assign)

\* as get_user_group_id_for_partition, with the (null) result for an unknown
\* partition id written to the cache before the error is raised
get_user_group_id_for_partition_caching_unknown(user, course_id, cache, user_partition_id) ==
    LET key == cache_key(user, course_id, user_partition_id)
    IN  IF CacheHit(cache, key)
        THEN { [exc |-> "none", value |-> caches[cache][key], hit |-> TRUE,
                invoked |-> 0, scanned |-> FALSE, partition |-> NoneObj,
                tags |-> course_tags, caches |-> caches] }
        ELSE LET found == _get_user_partition(course_id, user_partition_id)
             IN  IF found.exc # "none"
                 THEN { [exc |-> found.exc, value |-> NoGroupId, hit |-> FALSE,
                         invoked |-> 0, scanned |-> TRUE, partition |-> NoneObj,
                         tags |-> course_tags, caches |-> caches] }
                 ELSE IF found.value = NoneObj
                      THEN { [exc |-> "ValueError", value |-> NoGroupId, hit |-> FALSE,
                              invoked |-> 0, scanned |-> TRUE, partition |-> NoneObj,
                              tags |-> course_tags,
                              caches |-> CacheStore(cache, key, NoGroupId)] }
                      ELSE { [exc |-> "none", value |-> o.group, hit |-> FALSE,
                              invoked |-> 1, scanned |-> TRUE,
                              partition |-> found.value, tags |-> o.tags,
                              caches |-> CacheStore(cache, key, o.group)] :
                               o \in get_group(user, course_id, found.value, TRUE) }

\* as get_user_group_id_for_partition, with the partition looked up before
\* the cache is consulted
get_user_group_id_for_partition_lookup_first(user, course_id, cache, user_partition_id) ==
    LET key   == cache_key(user, course_id, user_partition_id)
        found == _get_user_partition(course_id, user_partition_id)
    IN  IF found.exc # "none"
        THEN { [exc |-> found.exc, value |-> NoGroupId, hit |-> FALSE,
                invoked |-> 0, scanned |-> TRUE, partition |-> NoneObj,
                tags |-> course_tags, caches |-> caches] }
        ELSE IF found.value = NoneObj
             THEN { [exc |-> "ValueError", value |-> NoGroupId, hit |-> FALSE,
                     invoked |-> 0, scanned |-> TRUE, partition |-> NoneObj,
                     tags |-> course_tags, caches |-> caches] }
             ELSE IF CacheHit(cache, key)
                  THEN { [exc |-> "none", value |-> caches[cache][key], hit |-> TRUE,
                          invoked |-> 0, scanned |-> TRUE, partition |-> NoneObj,
                          tags |-> course_tags, caches |-> caches] }
                  ELSE { [exc |-> "none", value |-> o.group, hit |-> FALSE,
                          invoked |-> 1, scanned |-> TRUE,
                          partition |-> found.value, tags |-> o.tags,
                          caches |-> CacheStore(cache, key, o.group)] :
                           o \in get_group(user, course_id, found.value, TRUE) }

\* as get_user_group_id_for_partition, with the cache test written
\* "if cache_key in self._cache": a TypeError when the cache is None
get_user_group_id_for_partition_unguarded(user, course_id, cache, user_partition_id) ==
    LET key == cache_key(user, course_id, user_partition_id)
    IN  IF cache = NoCache
        THEN { [exc |-> "TypeError", value |-> NoGroupId, hit |-> FALSE,
                invoked |-> 0, scanned |-> FALSE, partition |-> NoneObj,
                tags |-> course_tags, caches |-> caches] }
        ELSE IF key \in DOMAIN caches[cache]
        THEN { [exc |-> "none", value |-> caches[cache][key], hit |-> TRUE,
                invoked |-> 0, scanned |-> FALSE, partition |-> NoneObj,
                tags |-> course_tags, caches |-> caches] }
        ELSE LET found == _get_user_partition(course_id, user_partition_id)
             IN  IF found.exc # "none"
                 THEN { [exc |-> found.exc, value |-> NoGroupId, hit |-> FALSE,
                         invoked |-> 0, scanned |-> TRUE, partition |-> NoneObj,
                         tags |-> course_tags, caches |-> caches] }
                 ELSE IF found.value = NoneObj
                      THEN { [exc |-> "ValueError", value |-> NoGroupId, hit |-> FALSE,
                              invoked |-> 0, scanned |-> TRUE, partition |-> NoneObj,
                              tags |-> course_tags, caches |-> caches] }
                      ELSE { [exc |-> "none", value |-> o.group, hit |-> FALSE,
                              invoked |-> 1, scanned |-> TRUE,
                              partition |-> found.value, tags |-> o.tags,
                              caches |-> CacheStore(cache, key, o.group)] :
                               o \in get_group(user, course_id, found.value, TRUE) }

\* as get_user_group_id_for_partition, with the group looked up by
\* self.get_group(user_partition, assign=False)
get_user_group_id_for_partition_lookup_only(user, course_id, cache, user_partition_id) ==
    LET key == cache_key(user, course_id, user_partition_id)
    IN  IF CacheHit(cache, key)
        THEN { [exc |-> "none", value |-> caches[cache][key], hit |-> TRUE,
                invoked |-> 0, scanned |-> FALSE, partition |-> NoneObj,
                tags |-> course_tags, caches |-> caches] }
        ELSE LET found == _get_user_partition(course_id, user_partition_id)
             IN  IF found.exc # "none"
                 THEN { [exc |-> found.exc, value |-> NoGroupId, hit |-> FALSE,
                         invoked |-> 0, scanned |-> TRUE, partition |-> NoneObj,
                         tags |-> course_tags, caches |-> caches] }
                 ELSE IF found.value = NoneObj
                      THEN { [exc |-> "ValueError", value |-> NoGroupId, hit |-> FALSE,
                              invoked |-> 0, scanned |-> TRUE, partition |-> NoneObj,
                              tags |-> course_tags, caches |-> caches] }
                      ELSE { [exc |-> "none", value |-> o.group, hit |-> FALSE,
                              invoked |-> 1, scanned |-> TRUE,
                              partition |-> found.value, tags |-> o.tags,
                              caches |-> CacheStore(cache, key, o.group)] :
                               o \in get_group(user, course_id, found.value, FALSE) }

\* The outcomes of PartitionService(user, course_id, cache=cache)
\*     .get_user_group_id_for_partition(user_partition_id)
\* scanned: were the course's partitions looked up; partition: the partition
\* handed to the scheme (NoneObj when the scheme is not invoked)
get_user_group_id_for_partition(user, course_id, cache, user_partition_id) ==
    LET key == cache_key(user, course_id, user_partition_id)
    IN  IF CacheHit(cache, key)
        THEN { [exc |-> "none", value |-> caches[cache][key], hit |-> TRUE,
                invoked |-> 0, scanned |-> FALSE, partition |-> NoneObj,
                tags |-> course_tags, caches |-> caches] }
        ELSE LET found == _get_user_partition(course_id, user_partition_id)
             IN  IF found.exc # "none"
                 THEN { [exc |-> found.exc, value |-> NoGroupId, hit |-> FALSE,
                         invoked |-> 0, scanned |-> TRUE, partition |-> NoneObj,
                         tags |-> course_tags, caches |-> caches] }
                 ELSE IF found.value = NoneObj
                      THEN { [exc |-> "ValueError", value |-> NoGroupId, hit |-> FALSE,
                              invoked |-> 0, scanned |-> TRUE, partition |-> NoneObj,
                              tags |-> course_tags, caches |-> caches] }
                      ELSE { [exc |-> "none", value |-> o.group, hit |-> FALSE,
                              invoked |-> 1, scanned |-> TRUE,
                              partition |-> found.value, tags |-> o.tags,
                              caches |-> CacheStore(cache, key, o.group)] :
                               o \in get_group(user, course_id, found.value, TRUE) }

\* the partitions of the course's combined list that have the given id, in list order
MatchingPartitions(course_id, user_partition_id) ==
    LET all == course_partitions(course_id)
    IN  SelectSeq(all, LAMBDA p : p # NoneObj /\ p.id = user_partition_id)

(* ------------------------------ state ---------------------------------- *)

Init ==
    /\ registered \in BOOLEAN
    /\ user_partitions \in [CourseIds -> StaticChoices]
    /\ course_tags = [t \in TagKeys |-> NoGroupId]
    /\ caches = [k \in CacheObjects |-> << >>]
    /\ last = [op |-> "init"]
    /\ prev = [t \in TagKeys |-> "unset"]
    /\ calls = 0

(* ----------------------------- operations ------------------------------ *)

GetCourseUserPartitions ==
    \E course \in CourseIds :
        /\ calls < MaxCalls
        /\ calls' = calls + 1
        /\ last' = [op |-> "get_course_user_partitions", course |-> course,
                    static |-> user_partitions[course],
                    ret |-> get_course_user_partitions(course),
                    \* is this a repeat of the call made just before
                    again |-> /\ last.op = "get_course_user_partitions"
                              /\ last.course = course]
        /\ user_partitions' =
               [user_partitions EXCEPT ![course] = user_partitions_after_call(course)]
        /\ UNCHANGED << registered, course_tags, caches, prev >>

\* a call of get_user_group_id_for_partition on a service constructed with
\* one of the given users, course ids and caches
CallOn(users, course_ids, cache_refs, partition_ids) ==
    \E user \in users, course_id \in course_ids, cache \in cache_refs,
       user_partition_id \in partition_ids :
        \E o \in get_user_group_id_for_partition(user, course_id, cache, user_partition_id) :
            /\ calls < MaxCalls
            /\ calls' = calls + 1
            /\ course_tags' = o.tags
            /\ caches' = o.caches
            /\ last' = [op |-> "get_user_group_id_for_partition", user |-> user,
                        course_id |-> course_id, cache |-> cache,
                        user_partition_id |-> user_partition_id,
                        exc |-> o.exc, value |-> o.value, hit |-> o.hit,
                        invoked |-> o.invoked, scanned |-> o.scanned,
                        partition |-> o.partition,
                        \* what the caller could observe when the call was made
                        had_entry |-> /\ cache # NoCache
                                      /\ cache_key(user, course_id, user_partition_id)
                                             \in DOMAIN caches[cache],
                        matching |-> MatchingPartitions(course_id, user_partition_id),
                        tag_before |-> course_tags[<< user, course_id, user_partition_id >>],
                        prev_before |-> prev[<< user, course_id, user_partition_id >>]]
            /\ prev' = IF o.exc = "none"
                       THEN [prev EXCEPT ![<< user, course_id, user_partition_id >>] = o.value]
                       ELSE prev
            /\ UNCHANGED << registered, user_partitions >>

GetGroup ==
    \E user \in Users, course_id \in CourseIds, assign \in BOOLEAN :
        \E i \in DOMAIN course_partitions(course_id) :
            LET user_partition == course_partitions(course_id)[i]
            IN  /\ user_partition # NoneObj
                /\ \E o \in get_group(user, course_id, user_partition, assign) :
                    /\ calls < MaxCalls
                    /\ calls' = calls + 1
                    /\ course_tags' = o.tags
                    /\ last' = [op |-> "get_group", user |-> user,
                                course_id |-> course_id,
                                user_partition |-> user_partition,
                                assign |-> assign, value |-> o.group]
                    /\ UNCHANGED << registered, user_partitions, caches, prev >>

GetUserGroupIdForPartition == CallOn(Users, CourseIds, CacheRefs, CallPartitionIds)

\* prev once the groups of partition user_partition_id of the course have changed
Forget(course, user_partition_id) ==
    [t \in TagKeys |->
        IF t[2] = course /\ t[3] = user_partition_id THEN "unset" ELSE prev[t]]

\* the course author deletes a group of a static partition
RemoveGroup ==
    \E course \in CourseIds :
        \E i \in DOMAIN user_partitions[course] :
            \E g \in user_partitions[course][i].groups :
                /\ calls < MaxCalls
                /\ calls' = calls + 1
                /\ user_partitions' =
                       [user_partitions EXCEPT ![course][i].groups = @ \ {g}]
                /\ last' = [op |-> "remove_group", course |-> course,
                            user_partition_id |-> user_partitions[course][i].id]
                /\ prev' = Forget(course, user_partitions[course][i].id)
                /\ UNCHANGED << registered, course_tags, caches >>

\* the course author deletes a static partition
RemovePartition ==
    \E course \in CourseIds :
        \E i \in DOMAIN user_partitions[course] :
            /\ calls < MaxCalls
            /\ calls' = calls + 1
            /\ user_partitions' =
                   [user_partitions EXCEPT ![course] =
                        SubSeq(@, 1, i - 1) \o SubSeq(@, i + 1, Len(@))]
            /\ last' = [op |-> "remove_partition", course |-> course,
                        user_partition_id |-> user_partitions[course][i].id]
            /\ prev' = Forget(course, user_partitions[course][i].id)
            /\ UNCHANGED << registered, course_tags, caches >>

Next ==
    \/ GetCourseUserPartitions
    \/ GetUserGroupIdForPartition
    \/ GetGroup
    \/ RemoveGroup
    \/ RemovePartition

Spec == Init /\ [][Next]_vars

(* ------------- services of several users sharing one cache ------------- *)

SharedUsers == {1, 2}

\* course ids are strings that may contain the separator of the cache key
SharedCourseIds == {"c1", "c1.2"}

SharedPartitionIds == {1, 2}

SharedTagKeys == SharedUsers \X SharedCourseIds \X SharedPartitionIds

InitShared ==
    /\ registered = TRUE
    /\ user_partitions =
           [c \in SharedCourseIds |->
               << StaticPartition(1, "A", GroupIds), StaticPartition(2, "C", GroupIds) >>]
    /\ course_tags = [t \in SharedTagKeys |-> NoGroupId]
    /\ caches = [k \in CacheObjects |-> << >>]
    /\ last = [op |-> "init"]
    /\ prev = [t \in SharedTagKeys |-> "unset"]
    /\ calls = 0

GetUserGroupIdForPartitionShared ==
    CallOn(SharedUsers, SharedCourseIds, {"k1"}, SharedPartitionIds)

NextShared == GetUserGroupIdForPartitionShared

SpecShared == InitShared /\ [][NextShared]_vars

(* ------------------ _get_partition_from_id on its own ------------------ *)

\* partitions to build lists of; two of them have the same id
ScanPartitions ==
    { StaticPartition(1, "A", GroupIds), StaticPartition(1, "B", {"g1"}),
      StaticPartition(2, "C", {"g0"}) }

\* the lists of partitions of length up to MaxLen
ScanLists == UNION { [1..n -> ScanPartitions] : n \in 0..MaxLen }

InitScan ==
    /\ registered \in BOOLEAN
    /\ user_partitions \in [CourseIds -> ScanLists]
    /\ course_tags = [t \in TagKeys |-> NoGroupId]
    /\ caches = [k \in CacheObjects |-> << >>]
    /\ last = [op |-> "init"]
    /\ prev = [t \in TagKeys |-> "unset"]
    /\ calls = 0

\* _get_partition_from_id(course.user_partitions, user_partition_id)
GetPartitionFromId ==
    \E course \in CourseIds, user_partition_id \in CallPartitionIds :
        LET found == _get_partition_from_id(user_partitions[course], user_partition_id)
        IN  /\ calls < MaxCalls
            /\ calls' = calls + 1
            /\ last' = [op |-> "_get_partition_from_id", course |-> course,
                        partitions |-> user_partitions[course],
                        user_partition_id |-> user_partition_id,
                        exc |-> found.exc, value |-> found.value]
            /\ UNCHANGED << registered, user_partitions, course_tags, caches, prev >>

NextScan == GetPartitionFromId

SpecScan == InitScan /\ [][NextScan]_vars

(* ------------------------ properties: lookup --------------------------- *)

\* the ids of a list of partitions none of which is None
IdsOf(partitions) == { partitions[i].id : i \in DOMAIN partitions }

\* ret is the list static followed by one synthesized enrollment-track partition
EndsWithEnrollmentTrack(static, ret) ==
    /\ Len(ret) = Len(static) + 1
    /\ SubSeq(ret, 1, Len(static)) = static
    /\ ret[Len(ret)] # NoneObj
    /\ ret[Len(ret)].id = ENROLLMENT_TRACK_PARTITION_ID
    /\ ret[Len(ret)].scheme = "enrollment_track"

\* C1 as stated: for every course whose static partitions do not include id
\* 50, get_course_user_partitions returns the static partitions in their
\* order followed by a synthesized enrollment-track partition with id 50.
C1_AsStated ==
    (/\ last.op = "get_course_user_partitions"
     /\ ENROLLMENT_TRACK_PARTITION_ID \notin IdsOf(last.static))
        => EndsWithEnrollmentTrack(last.static, last.ret)

\* C1 amended: for every course whose static partitions do not include id
\* 50, and with the "enrollment_track" scheme registered,
\* get_course_user_partitions returns the static partitions in their order
\* followed by a synthesized enrollment-track partition with id 50.
C1_EnrollmentTrackAppended ==
    (/\ last.op = "get_course_user_partitions"
     /\ ENROLLMENT_TRACK_PARTITION_ID \notin IdsOf(last.static)
     /\ registered)
        => EndsWithEnrollmentTrack(last.static, last.ret)

C1_Witness ==
    /\ last.op = "get_course_user_partitions"
    /\ ENROLLMENT_TRACK_PARTITION_ID \notin IdsOf(last.static)
    /\ registered
    /\ Len(last.static) = 2
    /\ last.ret[1].id = 1
    /\ last.ret[2].id = 2
    /\ last.ret[3].id = ENROLLMENT_TRACK_PARTITION_ID

\* C2: if a static partition has id 50, get_course_user_partitions returns
\* exactly the static partitions, with no extra element of any kind.
C2_NoDynamicOnCollision ==
    (/\ last.op = "get_course_user_partitions"
     /\ ENROLLMENT_TRACK_PARTITION_ID \in IdsOf(last.static))
        => last.ret = last.static

\* C3: if no "enrollment_track" scheme is registered,
\* get_course_user_partitions returns exactly the static partitions, with no
\* extra element of any kind.
C3_NoDynamicWhenUnregistered ==
    (/\ last.op = "get_course_user_partitions"
     /\ ~registered)
        => last.ret = last.static

\* C7: for a course whose static partition ids are pairwise distinct, no two
\* elements of the list get_course_user_partitions returns have the same id
\* (and no two of them are None).
C7_UniqueIds ==
    (/\ last.op = "get_course_user_partitions"
     /\ \A i, j \in DOMAIN last.static :
            i # j => last.static[i].id # last.static[j].id)
        => \A i, j \in DOMAIN last.ret :
               i # j =>
                 /\ ~(last.ret[i] = NoneObj /\ last.ret[j] = NoneObj)
                 /\ (last.ret[i] # NoneObj /\ last.ret[j] # NoneObj)
                        => last.ret[i].id # last.ret[j].id

C7_Witness ==
    /\ last.op = "get_course_user_partitions"
    /\ registered
    /\ Len(last.static) = 2
    /\ ENROLLMENT_TRACK_PARTITION_ID \in IdsOf(last.static)
    /\ last.static[1].id # last.static[2].id
    /\ Len(last.ret) = 3

(* ------------------------ properties: service -------------------------- *)

\* C4: a call of get_user_group_id_for_partition with a partition id that no
\* partition of the course has, and for which the cache holds no entry,
\* raises ValueError and no other kind of failure.
C4_UnknownIdRaisesValueError ==
    (/\ last.op = "get_user_group_id_for_partition"
     /\ last.matching = << >>
     /\ ~last.had_entry)
        => last.exc = "ValueError"

\* C5: once the cache holds an entry for the key of (user, course, partition
\* id), a call with that partition id returns the cached value without
\* invoking the scheme, and leaves the entry (and the whole cache) as it is,
\* so that the same holds of every later call.
C5_CachedValueReturned ==
    [][ (/\ last'.op = "get_user_group_id_for_partition"
         /\ last'.cache # NoCache
         /\ cache_key(last'.user, last'.course_id, last'.user_partition_id)
                \in DOMAIN caches[last'.cache])
            => /\ last'.exc = "none"
               /\ last'.value =
                      caches[last'.cache][cache_key(last'.user, last'.course_id,
                                                    last'.user_partition_id)]
               /\ last'.invoked = 0
               /\ caches' = caches
               /\ course_tags' = course_tags ]_vars

C5_Witness ==
    /\ last.op = "get_user_group_id_for_partition"
    /\ last.had_entry
    /\ last.value \in GroupIds
    /\ last.invoked = 0

\* C6: get_group(partition, assign=False) creates no persisted assignment:
\* the assignment store is the same after the call as before it.
C6_LookupOnlyPersistsNothing ==
    [][ (last'.op = "get_group" /\ ~last'.assign) => course_tags' = course_tags ]_vars

\* a lookup-only call for a user without a stored assignment in a partition
\* that has groups to assign
C6_Witness ==
    /\ last.op = "get_group"
    /\ ~last.assign
    /\ last.user_partition.groups # {}
    /\ last.value = NoGroupId
    /\ course_tags[<< last.user, last.course_id, last.user_partition.id >>] = NoGroupId

\* C8: with the partition's groups unchanged, two calls for the same user,
\* course and partition return the same group id, on any service instance
\* (with the same, another or no cache); and a call for a user who already
\* is assigned to a group of the partition returns that group's id.
C8_StableAssignment ==
    (/\ last.op = "get_user_group_id_for_partition"
     /\ last.exc = "none")
        => /\ last.prev_before # "unset" => last.value = last.prev_before
           /\ (/\ last.matching # << >>
               /\ last.tag_before \in last.matching[1].groups)
                  => last.value = last.tag_before

\* C9: every non-null id get_user_group_id_for_partition returns is the id
\* of a group that the specified partition has at the time of the call.
C9_ReturnedGroupExists ==
    (/\ last.op = "get_user_group_id_for_partition"
     /\ last.exc = "none"
     /\ last.value # NoGroupId)
        => /\ last.matching # << >>
           /\ last.value \in last.matching[1].groups

\* C10: with a cache supplied, a call that misses the cache and returns
\* normally leaves the cache mapping the key to the value returned, and
\* changes no other entry of this or of another cache.
C10_MissStoresResult ==
    [][ (/\ last'.op = "get_user_group_id_for_partition"
         /\ last'.cache # NoCache
         /\ cache_key(last'.user, last'.course_id, last'.user_partition_id)
                \notin DOMAIN caches[last'.cache]
         /\ last'.exc = "none")
            => LET key == cache_key(last'.user, last'.course_id,
                                    last'.user_partition_id)
               IN  /\ DOMAIN caches'[last'.cache] =
                          DOMAIN caches[last'.cache] \cup {key}
                   /\ caches'[last'.cache][key] = last'.value
                   /\ \A k \in DOMAIN caches[last'.cache] :
                          caches'[last'.cache][k] = caches[last'.cache][k]
                   /\ \A c \in CacheObjects \ {last'.cache} :
                          caches'[c] = caches[c] ]_vars

\* a miss on a cache that was empty when the call was made
C10_Witness ==
    /\ last.op = "get_user_group_id_for_partition"
    /\ last.cache # NoCache
    /\ ~last.had_entry
    /\ last.exc = "none"
    /\ DOMAIN caches[last.cache] =
           {cache_key(last.user, last.course_id, last.user_partition_id)}

\* C11: a cached null group id is a cache hit.  A call in which the scheme
\* yields no group stores null under the key, and a call that finds null
\* under its key returns null without invoking the scheme.
C11_CachedNullIsHit ==
    [][ LET key == cache_key(last'.user, last'.course_id, last'.user_partition_id)
        IN  /\ (/\ last'.op = "get_user_group_id_for_partition"
                /\ last'.cache # NoCache
                /\ last'.invoked = 1
                /\ last'.value = NoGroupId)
                   => /\ key \in DOMAIN caches'[last'.cache]
                      /\ caches'[last'.cache][key] = NoGroupId
            /\ (/\ last'.op = "get_user_group_id_for_partition"
                /\ last'.cache # NoCache
                /\ key \in DOMAIN caches[last'.cache]
                /\ caches[last'.cache][key] = NoGroupId)
                   => /\ last'.exc = "none"
                      /\ last'.value = NoGroupId
                      /\ last'.hit
                      /\ last'.invoked = 0 ]_vars

\* a call that returned a cached null
C11_Witness ==
    /\ last.op = "get_user_group_id_for_partition"
    /\ last.had_entry
    /\ last.hit
    /\ last.value = NoGroupId
    /\ last.invoked = 0

\* the call that was made last fails with the configuration error when it
\* is made again now
RepeatRaisesValueError ==
    \A o \in get_user_group_id_for_partition(last.user, last.course_id, last.cache,
                                             last.user_partition_id) :
        o.exc = "ValueError"

\* C12: when get_user_group_id_for_partition fails with the configuration
\* error, the scheme has not been invoked, the assignments and the caches
\* are as they were before the call, and the same call made again fails
\* with the configuration error again.
C12_ErrorLeavesNoTrace ==
    [][ (/\ last'.op = "get_user_group_id_for_partition"
         /\ last'.exc = "ValueError")
            => /\ last'.invoked = 0
               /\ course_tags' = course_tags
               /\ caches' = caches
               /\ RepeatRaisesValueError' ]_vars

\* a call with a cache that failed with the configuration error
C12_Witness ==
    /\ last.op = "get_user_group_id_for_partition"
    /\ last.exc = "ValueError"
    /\ last.cache # NoCache
    /\ last.matching = << >>

C14_DynamicPartitionResolved ==
    (/\ last.op = "get_user_group_id_for_partition"
     /\ last.user_partition_id = ENROLLMENT_TRACK_PARTITION_ID
     /\ ~last.had_entry
     /\ registered
     /\ ENROLLMENT_TRACK_PARTITION_ID \notin IdsOf(user_partitions[last.course_id]))
        => /\ last.exc = "none"
           /\ last.invoked = 1
           /\ last.partition # NoneObj
           /\ last.partition.id = ENROLLMENT_TRACK_PARTITION_ID
           /\ last.partition.scheme = "enrollment_track"
           /\ last.value \in last.partition.groups \cup {NoGroupId}

\* a resolved call for id 50 in a course that has static partitions
C14_Witness ==
    /\ last.op = "get_user_group_id_for_partition"
    /\ last.user_partition_id = ENROLLMENT_TRACK_PARTITION_ID
    /\ ~last.had_entry
    /\ registered
    /\ Len(user_partitions[last.course_id]) = 2
    /\ last.exc = "none"
    /\ last.partition.scheme = "enrollment_track"
    /\ last.value \in GroupIds

\* C15: the cache is optional.  A call on a service constructed with
\* cache=None fails only when the course has no partition with the id; with
\* a known id it invokes the scheme exactly once, returns the group id (or
\* null) the scheme yields and persists what the scheme persists; no cache
\* is touched.
C15_CacheIsOptional ==
    [][ (/\ last'.op = "get_user_group_id_for_partition"
         /\ last'.cache = NoCache)
            => /\ caches' = caches
               /\ ~last'.hit
               /\ (last'.exc # "none") => (last'.matching = << >>)
               /\ (last'.matching # << >>)
                    => /\ last'.exc = "none"
                       /\ last'.invoked = 1
                       /\ \E o \in get_group_for_user(last'.course_id, last'.user,
                                                      last'.matching[1], TRUE) :
                              /\ last'.value = o.group
                              /\ course_tags' = o.tags ]_vars

\* a call without a cache that assigned the user to a group
C15_Witness ==
    /\ last.op = "get_user_group_id_for_partition"
    /\ last.cache = NoCache
    /\ last.matching # << >>
    /\ last.tag_before = NoGroupId
    /\ last.value \in GroupIds
    /\ last.invoked = 1

\* C17: a cache is only written by get_user_group_id_for_partition, under
\* the key of the call and with the result of a scheme call made with
\* assign=True; get_group, with either value of assign, leaves every cache
\* as it is and returns what the scheme yields for its assign flag.
C17_OnlyAssigningCallsAreCached ==
    [][ /\ (caches' # caches)
            => /\ last'.op = "get_user_group_id_for_partition"
               /\ last'.cache # NoCache
               /\ last'.invoked = 1
               /\ caches' =
                      [caches EXCEPT ![last'.cache] =
                          (cache_key(last'.user, last'.course_id,
                                     last'.user_partition_id) :> last'.value) @@ @]
               /\ \E o \in get_group_for_user(last'.course_id, last'.user,
                                              last'.partition, TRUE) :
                      /\ last'.value = o.group
                      /\ course_tags' = o.tags
        /\ (last'.op = "get_group")
            => /\ caches' = caches
               /\ \E o \in get_group_for_user(last'.course_id, last'.user,
                                              last'.user_partition, last'.assign) :
                      /\ last'.value = o.group
                      /\ course_tags' = o.tags ]_vars

\* a lookup-only get_group call that found no group, made while a cache
\* holds entries
C17_Witness ==
    /\ last.op = "get_group"
    /\ ~last.assign
    /\ last.value = NoGroupId
    /\ last.user_partition.groups # {}
    /\ \E k \in CacheObjects : DOMAIN caches[k] # {}

\* the ids of the elements of a list returned by get_course_user_partitions,
\* in list order (0 for a None element)
IdList(ret) == [i \in DOMAIN ret |-> IF ret[i] = NoneObj THEN 0 ELSE ret[i].id]

\* C18: get_course_user_partitions does not modify the course: the static
\* partition list (and the scheme registry) is the same after the call as
\* before it, and a call repeated on the unchanged course returns a list of
\* the same length with the same partition ids in the same order.
C18_LookupLeavesCourseAlone ==
    [][ (last'.op = "get_course_user_partitions")
            => /\ user_partitions' = user_partitions
               /\ registered' = registered
               /\ (/\ last.op = "get_course_user_partitions"
                   /\ last.course = last'.course)
                      => /\ Len(last'.ret) = Len(last.ret)
                         /\ IdList(last'.ret) = IdList(last.ret) ]_vars

\* a repeated call that returned static partitions and the synthesized one
C18_Witness ==
    /\ last.op = "get_course_user_partitions"
    /\ last.again
    /\ Len(last.static) >= 1
    /\ Len(last.ret) = Len(last.static) + 1
    /\ last.ret[Len(last.ret)] # NoneObj
    /\ user_partitions[last.course] = last.static

(* ------------------- properties: services sharing a cache -------------- *)

\* C16: cache entries are isolated per (user id, course id, partition id).
\* Triples that differ in a component have different cache keys, and a call
\* served from the shared cache returns the value that an earlier call for
\* the same triple returned, never one cached for another triple.
C16_CacheEntriesIsolated ==
    /\ \A t1, t2 \in SharedTagKeys :
           t1 # t2 => cache_key(t1[1], t1[2], t1[3]) # cache_key(t2[1], t2[2], t2[3])
    /\ (/\ last.op = "get_user_group_id_for_partition"
        /\ last.hit)
           => /\ last.prev_before # "unset"
              /\ last.value = last.prev_before

\* a hit for user 2 while the shared cache holds another group for user 1 in
\* the same course and partition
C16_Witness ==
    /\ last.op = "get_user_group_id_for_partition"
    /\ last.hit
    /\ last.user = 2
    /\ LET other == cache_key(1, last.course_id, last.user_partition_id)
       IN  /\ other \in DOMAIN caches[last.cache]
           /\ caches[last.cache][other] # last.value

(* --------------- properties: _get_partition_from_id on its own --------- *)

====
